---- MODULE Spec2Model ----
(***************************************************************************)
(* netdiag: the TCP port scanner of src/netdiag/portscan.py.               *)
(*                                                                         *)
(* One scan invocation per behaviour: either scan_ports (a port range      *)
(* probed through a ThreadPoolExecutor) or scan_common_ports (the table of *)
(* well-known ports probed one after the other by _scan_port_list).        *)
(* The wall-clock fields (start_time, scan_time) are not modelled.         *)
(*                                                                         *)
(* SpecCancel adds a KeyboardInterrupt raised in the thread that runs      *)
(* scan_ports. SpecProfiler is the PerformanceProfiler of                  *)
(* src/netdiag/profiler.py called by concurrent threads.                   *)
(***************************************************************************)
EXTENDS Integers, Sequences, FiniteSets, TLC

(* ------------------------------ bounds -------------------------------- *)

\* Widest port range a modelled call may request.
MaxWidth == 3

\* Largest max_threads argument a modelled call may pass.
MaxThreads == 3

\* Threads that call the profiler concurrently.
NumThreads == 2

\* Profiler method invocations in one behaviour.
MaxCalls == 3

\* Longest hostnames list given to dns_bulk_lookup.
MaxHosts == 3

\* Largest count given to ping_latency_test.
MaxCount == 4

(* ------------------------- program constants -------------------------- *)

\* Port numbers accepted by scan_ports: 1..65535.
MinPort == 1
MaxPort == 65535

\* validate_port_range rejects a range whose end - start exceeds this.
RangeLimit == 10000

\* Values socket.connect_ex returns (Linux errno numbers); 0 is success.
EAGAIN == 11
ECONNREFUSED == 111
EHOSTUNREACH == 113
EINPROGRESS == 115

(* ----------------------------- inputs --------------------------------- *)

\* start_port / end_port arguments: below, inside and above the legal range.
PortArgs == {MinPort - 1} \cup (MinPort .. MinPort + MaxWidth - 1) \cup {MaxPort, MaxPort + 1}

\* timeout arguments: negative, zero, positive.
TimeoutArgs == {-1, 0, 1}

\* max_threads arguments: negative, zero, positive.
ThreadArgs == (-1) .. MaxThreads

\* host arguments: a name that resolves, a name that does not exist, and a
\* name gethostbyname cannot even encode (a label longer than 63 characters).
HostArgs == {"host.example", "nx.invalid", "label-too-long"}

\* What the environment does to the probe of one port:
\*   accept  - a listener accepts the connection
\*   refuse  - nothing listens, the stack answers RST
\*   drop    - packets are silently dropped (the connect deadline passes)
\*   unreach - the host or network is unreachable
\*   nosock  - the process cannot create a socket (socket.socket raises OSError)
EnvKinds == {"accept", "refuse", "drop", "unreach", "nosock"}

\* Function names the profiler is given (names of decorated functions).
Names == {"ping", "scan_ports"}

\* Threads calling into the one PerformanceProfiler.
Threads == 1 .. NumThreads

\* execution_time arguments of record_call, in whole time units.
Times == {1, 2}

\* A name that is not a key of _metrics.
NoEntry == [present |-> FALSE, call_count |-> 0, total_time |-> 0, errors |-> 0]

\* PerformanceMetrics(function_name): a fresh entry.
NewEntry == [present |-> TRUE, call_count |-> 0, total_time |-> 0, errors |-> 0]

NoArgs == [name |-> "none", time |-> 0, success |-> TRUE]

NoRegs == [call_count |-> 0, total_time |-> 0, errors |-> 0, found |-> FALSE]

\* A port argument of validate_port / validate_port_range: an integer (or a
\* string int() converts to it), or text that int() rejects.
NoPortArg == [text |-> FALSE, n |-> 0]

\* Nothing returned or raised yet.
NoOutcome == [ok |-> FALSE, value |-> <<0, 0>>, error |-> "none"]

\* No wrapper invocation.
NoInvocation == [pc |-> "idle", name |-> "none", outcome |-> "none",
                 success |-> TRUE, seen |-> "none"]

(* ------------------------ scan_common_ports table --------------------- *)

\* The port list of scan_common_ports, in dict insertion order.
ports_list == <<21, 22, 23, 25, 53, 80, 110, 143, 443, 993, 995, 1433, 3306, 3389, 5432, 5900, 6379, 8080, 8443, 27017>>

\* The port -> service table of scan_common_ports.
common_ports ==
    (21 :> "FTP") @@ (22 :> "SSH") @@ (23 :> "Telnet") @@ (25 :> "SMTP") @@
    (53 :> "DNS") @@ (80 :> "HTTP") @@ (110 :> "POP3") @@ (143 :> "IMAP") @@
    (443 :> "HTTPS") @@ (993 :> "IMAPS") @@ (995 :> "POP3S") @@
    (1433 :> "MSSQL") @@ (3306 :> "MySQL") @@ (3389 :> "RDP") @@
    (5432 :> "PostgreSQL") @@ (5900 :> "VNC") @@ (6379 :> "Redis") @@
    (8080 :> "HTTP-Alt") @@ (8443 :> "HTTPS-Alt") @@ (27017 :> "MongoDB")

\* Ports of the table that may have a listener in a modelled environment.
Listeners == {22, 80, 443}

\* Environments of a common-ports scan: some of Listeners accept, every other
\* port of the table behaves in one and the same way.
CommonEnvs ==
    { [p \in DOMAIN common_ports |-> IF p \in L THEN "accept" ELSE d] :
        L \in SUBSET Listeners, d \in EnvKinds \ {"accept"} }

(* ------------------------------ state --------------------------------- *)

VARIABLES
    pc,              \* position of the calling (orchestrating) thread
    variant,         \* "none" | "range" (scan_ports) | "common" (scan_common_ports)
    host,            \* argument host
    start_port,      \* argument start_port (scan_ports)
    end_port,        \* argument end_port (scan_ports)
    timeout,         \* argument timeout
    max_threads,     \* argument max_threads (scan_ports)
    env,             \* port -> EnvKinds: what the network does to each probe
    resolve_calls,   \* number of socket.gethostbyname calls made
    ports_to_scan,   \* the list of ports of this invocation
    result,          \* the result dict being built / returned
    future_to_port,  \* ports in submission order (one future per port)
    work_queue,      \* submitted tasks no worker has taken yet
    probe,           \* port -> "pending" | "connecting" | "open" | "closed" | "filtered" ("raised": the task raised)
    exc,             \* port -> exception caught inside _scan_single_port, or "none"
    conn,            \* port -> value returned by connect_ex (ports whose connect_ex returned)
    sock,            \* port -> "none" | "open" | "closed": the probe's socket
    attempts,        \* port -> number of connect_ex calls made for the port
    dest,            \* port -> address its connect_ex was given, "none" before the call
    collected,       \* ports in the order the caller appended them to the report
    interrupt,       \* KeyboardInterrupt in the calling thread: whether one was raised, and
                     \* the probes started and ports collected at that moment
    metrics,         \* PerformanceProfiler._metrics: name -> entry (present or not)
    lock,            \* PerformanceProfiler._lock: the thread holding it, 0 when free
    enabled,         \* PerformanceProfiler._enabled
    tpc,             \* thread -> position inside the profiler method it is running
    targ,            \* thread -> arguments of the profiler method it is running
    treg,            \* thread -> its local values (a loaded counter, a snapshot being built)
    completed,       \* name -> record_call invocations completed since the last clear
    failed,          \* name -> those of them made with success = False
    spent,           \* name -> sum of their execution_time
    calls,           \* profiler method invocations started so far
    vr_pc,           \* validate_port_range: "idle" | "called" | "done"
    vr_args,         \* validate_port_range: its arguments <<start_port, end_port>>
    vr_out,          \* validate_port_range: the tuple it returned or the error it raised
    wrapper,         \* profile_performance: thread -> the wrapper invocation it is in
    winv,            \* profile_performance: per name, invocations that ended while monitoring
                     \* was enabled, and those of them that raised or returned success=False
    bulk_pc,         \* dns_bulk_lookup: "idle" | "loop" | "done"
    bulk_hostnames,  \* dns_bulk_lookup: argument hostnames (whether a list, and its items)
    bulk_results,    \* dns_bulk_lookup: local results
    bulk_successful, \* dns_bulk_lookup: local successful
    bulk_failed,     \* dns_bulk_lookup: local failed
    bulk_out,        \* dns_bulk_lookup: the dict returned
    lat_pc,          \* ping_latency_test: "idle" | "loop" | "done"
    lat_count,       \* ping_latency_test: argument count
    lat_pings,       \* ping_latency_test: pings made so far (iterations of the loop)
    latencies,       \* ping_latency_test: local latencies
    lat_successful,  \* ping_latency_test: local successful
    lat_result,      \* ping_latency_test: the result dict
    ip_pc,           \* get_public_ip: "idle" | "loop" | "done"
    ip_responses,    \* get_public_ip: what the contacted services answered, in order
    ip_contacted,    \* get_public_ip: services contacted so far, in order
    ip_errors,       \* get_public_ip: local errors
    ip_out           \* get_public_ip: the dict returned

scanVars == <<pc, variant, host, start_port, end_port, timeout, max_threads, env,
              resolve_calls, ports_to_scan, result, future_to_port, work_queue,
              probe, exc, conn, sock, attempts, dest, collected>>

profVars == <<metrics, lock, enabled, tpc, targ, treg, completed, failed, spent, calls>>

validateVars == <<vr_pc, vr_args, vr_out>>

wrapperVars == <<wrapper, winv>>

bulkVars == <<bulk_pc, bulk_hostnames, bulk_results, bulk_successful, bulk_failed, bulk_out>>

latencyVars == <<lat_pc, lat_count, lat_pings, latencies, lat_successful, lat_result>>

publicIpVars == <<ip_pc, ip_responses, ip_contacted, ip_errors, ip_out>>

utilVars == <<validateVars, wrapperVars, bulkVars, latencyVars, publicIpVars>>

coreVars == <<scanVars, interrupt, profVars>>

vars == <<scanVars, interrupt, profVars, utilVars>>

argVars == <<variant, host, start_port, end_port, timeout, max_threads, env>>
probeVars == <<probe, exc, conn, sock, attempts, dest>>

(* ----------------------------- helpers -------------------------------- *)

Min(a, b) == IF a < b THEN a ELSE b

Range(s) == {s[i] : i \in 1 .. Len(s)}

\* list(range(start_port, end_port + 1))
range_list(a, b) == [i \in 1 .. (IF b >= a THEN b - a + 1 ELSE 0) |-> a + i - 1]

\* Mutant of sort: the lists are left in collection order.
sort_omitted(s) == s

\* list.sort(): ascending.
sort(s) == SortSeq(s, LAMBDA a, b : a < b)

(* ------------------- pure pieces of scan_ports ------------------------ *)

\* Mutant of ValidatePorts: the start_port > end_port check is missing.
ValidatePorts_no_order(s, e) ==
    IF s < MinPort \/ s > MaxPort THEN "Start port must be between 1 and 65535"
    ELSE IF e < MinPort \/ e > MaxPort THEN "End port must be between 1 and 65535"
    ELSE "ok"

\* Input validation of scan_ports: the error it returns, or "ok".
ValidatePorts(s, e) ==
    IF s < MinPort \/ s > MaxPort THEN "Start port must be between 1 and 65535"
    ELSE IF e < MinPort \/ e > MaxPort THEN "End port must be between 1 and 65535"
    ELSE IF s > e THEN "Start port cannot be greater than end port"
    ELSE "ok"

\* The dict returned for an invalid port range.
RangeFailure(msg) == [success |-> FALSE, error |-> msg]

\* socket.gethostbyname(host): "ok", "gaierror" (caught by the scanner) or
\* "UnicodeError" (the idna codec rejects the name; not caught by the scanner).
gethostbyname(h) ==
    CASE h = "host.example" -> "ok"
      [] h = "nx.invalid" -> "gaierror"
      [] OTHER -> "UnicodeError"

\* Mutant of ResolveFailure: a report with empty port lists is returned.
ResolveFailure_empty_report(h) ==
    [success |-> FALSE, error |-> "Failed to resolve hostname", host |-> h,
     open_ports |-> <<>>, closed_ports |-> <<>>, filtered_ports |-> <<>>,
     total_ports_scanned |-> 0]

\* The dict returned when gethostbyname raises socket.gaierror.
ResolveFailure(h) ==
    [success |-> FALSE, error |-> "Failed to resolve hostname", host |-> h]

\* Mutant of InitReport: total_ports_scanned keeps its initial 0.
InitReport_total_unset(h, s, e, t) ==
    [success |-> FALSE, host |-> h, target_ip |-> "ip", start_port |-> s,
     end_port |-> e, open_ports |-> <<>>, closed_ports |-> <<>>,
     filtered_ports |-> <<>>, total_ports_scanned |-> 0,
     timeout |-> t, error |-> "None"]

\* The result dict of scan_ports after resolution, total_ports_scanned set.
InitReport(h, s, e, t) ==
    [success |-> FALSE, host |-> h, target_ip |-> "ip", start_port |-> s,
     end_port |-> e, open_ports |-> <<>>, closed_ports |-> <<>>,
     filtered_ports |-> <<>>, total_ports_scanned |-> Len(range_list(s, e)),
     timeout |-> t, error |-> "None"]

\* The result dict of _scan_port_list after resolution.
InitListReport(h, ports, t) ==
    [success |-> FALSE, host |-> h, target_ip |-> "ip", open_ports |-> <<>>,
     closed_ports |-> <<>>, filtered_ports |-> <<>>,
     total_ports_scanned |-> Len(ports), timeout |-> t, error |-> "None"]

\* Mutant of actual_threads: one worker per port, max_threads ignored.
actual_threads_uncapped == Len(ports_to_scan)

\* actual_threads = min(max_threads, len(ports_to_scan))
actual_threads == Min(max_threads, Len(ports_to_scan))

\* Mutant of Record: "elif" written "if", so an open port also reaches the else.
Record_if_if(res, port, status) ==
    LET r1 == IF status = "open" THEN [res EXCEPT !.open_ports = Append(@, port)] ELSE res
    IN IF status = "closed" THEN [r1 EXCEPT !.closed_ports = Append(@, port)]
       ELSE [r1 EXCEPT !.filtered_ports = Append(@, port)]

\* The caller's if / elif / else on a probe's status: one append.
Record(res, port, status) ==
    IF status = "open" THEN [res EXCEPT !.open_ports = Append(@, port)]
    ELSE IF status = "closed" THEN [res EXCEPT !.closed_ports = Append(@, port)]
    ELSE [res EXCEPT !.filtered_ports = Append(@, port)]

\* Mutant of Finish: closed_ports is left in completion order.
Finish_closed_unsorted(res) ==
    [res EXCEPT !.open_ports = sort(@), !.filtered_ports = sort(@), !.success = TRUE]

\* The three sorts and success = True that end a scan.
Finish(res) ==
    [res EXCEPT !.open_ports = sort(@), !.closed_ports = sort(@),
                !.filtered_ports = sort(@), !.success = TRUE]

\* except Exception around the pool: the error is recorded, success stays False.
ScanFailure(res) == [res EXCEPT !.error = "Port scanning failed"]

(* ------------------- pure pieces of _scan_single_port ----------------- *)

\* socket.socket() and sock.settimeout(timeout): the probe's state after them.
\* socket() raises when no socket can be created; settimeout raises ValueError
\* on a negative timeout, after the socket exists and before any close().
ProbeBegin(kind, t) ==
    IF kind = "nosock" THEN [st |-> "filtered", exc |-> "socket", sock |-> "none"]
    ELSE IF t < 0 THEN [st |-> "filtered", exc |-> "settimeout", sock |-> "open"]
    ELSE [st |-> "connecting", exc |-> "none", sock |-> "open"]

\* sock.connect_ex((ip, port)): the value it returns. It returns an errno and
\* does not raise: EAGAIN when the deadline passes, EINPROGRESS at once on a
\* non-blocking socket (timeout 0).
connect_ex(kind, t) ==
    IF t = 0 THEN EINPROGRESS
    ELSE CASE kind = "accept" -> 0
           [] kind = "refuse" -> ECONNREFUSED
           [] kind = "drop" -> EAGAIN
           [] OTHER -> EHOSTUNREACH

\* Mutant of Classify: every result but "refused" counts as open.
Classify_not_refused(r) == IF r # ECONNREFUSED THEN "open" ELSE "closed"

\* if result == 0: 'open' else: 'closed'
Classify(r) == IF r = 0 THEN "open" ELSE "closed"

Terminal == {"open", "closed", "filtered"}

\* Mutant of task_ip: the host name, not the resolved address, reaches the probe.
task_ip_host == host

\* The ip argument every _scan_single_port call is given: target_ip, the
\* address the caller resolved.
task_ip == result.target_ip

\* Probes that hold a socket and have not returned yet.
InFlight == {p \in DOMAIN probe : probe[p] = "connecting"}

NoPorts == [p \in {} |-> "none"]

\* Environments of a range scan: any behaviour of each requested port (none
\* for a call that is rejected or wider than the model explores).
RangeEnvs(s, e) ==
    IF ValidatePorts(s, e) = "ok" /\ e - s + 1 <= MaxWidth
    THEN [s .. e -> EnvKinds] ELSE {NoPorts}

(* ------------------------------ Init ---------------------------------- *)

\* No call of validate_port_range, profile_performance's wrapper,
\* dns_bulk_lookup, ping_latency_test or get_public_ip has been made.
UtilInit ==
    /\ vr_pc = "idle"
    /\ vr_args = <<NoPortArg, NoPortArg>>
    /\ vr_out = NoOutcome
    /\ wrapper = [t \in Threads |-> NoInvocation]
    /\ winv = [done |-> [n \in Names |-> 0], failing |-> [n \in Names |-> 0]]
    /\ bulk_pc = "idle"
    /\ bulk_hostnames = [is_list |-> TRUE, items |-> <<>>]
    /\ bulk_results = <<>>
    /\ bulk_successful = 0
    /\ bulk_failed = 0
    /\ bulk_out = [success |-> FALSE]
    /\ lat_pc = "idle"
    /\ lat_count = 0
    /\ lat_pings = 0
    /\ latencies = <<>>
    /\ lat_successful = 0
    /\ lat_result = [success |-> FALSE]
    /\ ip_pc = "idle"
    /\ ip_responses = <<>>
    /\ ip_contacted = <<>>
    /\ ip_errors = <<>>
    /\ ip_out = [success |-> FALSE]

\* No KeyboardInterrupt was raised.
NoInterrupt == [raised |-> FALSE, started |-> {}, collected |-> <<>>]

\* PerformanceProfiler.__init__, no thread inside a method.
ProfilerInit ==
    /\ metrics = [n \in Names |-> NoEntry]
    /\ lock = 0
    /\ enabled = TRUE
    /\ tpc = [t \in Threads |-> "idle"]
    /\ targ = [t \in Threads |-> NoArgs]
    /\ treg = [t \in Threads |-> NoRegs]
    /\ completed = [n \in Names |-> 0]
    /\ failed = [n \in Names |-> 0]
    /\ spent = [n \in Names |-> 0]
    /\ calls = 0

Init ==
    /\ pc = "idle"
    /\ variant = "none"
    /\ host = "none"
    /\ start_port = 0
    /\ end_port = 0
    /\ timeout = 0
    /\ max_threads = 0
    /\ env = NoPorts
    /\ resolve_calls = 0
    /\ ports_to_scan = <<>>
    /\ result = <<>>
    /\ future_to_port = <<>>
    /\ work_queue = <<>>
    /\ probe = NoPorts
    /\ exc = NoPorts
    /\ conn = NoPorts
    /\ sock = NoPorts
    /\ attempts = NoPorts
    /\ dest = NoPorts
    /\ collected = <<>>
    /\ interrupt = NoInterrupt
    /\ ProfilerInit
    /\ UtilInit

(* ---------------------------- scan_ports ------------------------------ *)

\* scan_ports(host, start_port, end_port, timeout, max_threads) is called and
\* validates its port range; an invalid range returns at once.
CallScanPorts ==
    /\ pc = "idle"
    /\ \E h \in HostArgs, s \in PortArgs, e \in PortArgs, t \in TimeoutArgs, m \in ThreadArgs :
         /\ ValidatePorts(s, e) = "ok" => e - s + 1 <= MaxWidth
         /\ variant' = "range"
         /\ host' = h
         /\ start_port' = s
         /\ end_port' = e
         /\ timeout' = t
         /\ max_threads' = m
         /\ env' \in RangeEnvs(s, e)
         /\ IF ValidatePorts(s, e) = "ok"
            THEN /\ pc' = "resolve"
                 /\ result' = result
            ELSE /\ pc' = "done"
                 /\ result' = RangeFailure(ValidatePorts(s, e))
    /\ UNCHANGED <<resolve_calls, ports_to_scan, future_to_port, work_queue,
                   probeVars, collected>>
    /\ UNCHANGED <<interrupt, profVars, utilVars>>

\* target_ip = socket.gethostbyname(host); on success the result dict, the port
\* list and actual_threads are set up.
ScanPortsResolve ==
    /\ pc = "resolve"
    /\ variant = "range"
    /\ resolve_calls' = resolve_calls + 1
    /\ CASE gethostbyname(host) = "ok" ->
              /\ pc' = "pool"
              /\ result' = InitReport(host, start_port, end_port, timeout)
              /\ ports_to_scan' = range_list(start_port, end_port)
              /\ probe' = [p \in start_port .. end_port |-> "pending"]
              /\ exc' = [p \in start_port .. end_port |-> "none"]
              /\ sock' = [p \in start_port .. end_port |-> "none"]
              /\ attempts' = [p \in start_port .. end_port |-> 0]
              /\ dest' = [p \in start_port .. end_port |-> "none"]
         [] gethostbyname(host) = "gaierror" ->
              /\ pc' = "done"
              /\ result' = ResolveFailure(host)
              /\ UNCHANGED <<ports_to_scan, probe, exc, sock, attempts, dest>>
         [] OTHER ->
              /\ pc' = "raised"
              /\ UNCHANGED <<result, ports_to_scan, probe, exc, sock, attempts, dest>>
    /\ UNCHANGED <<argVars, future_to_port, work_queue, conn, collected>>
    /\ UNCHANGED <<interrupt, profVars, utilVars>>

\* with ThreadPoolExecutor(max_workers=actual_threads): the constructor raises
\* ValueError when max_workers <= 0, which the outer except Exception records.
CreatePool ==
    /\ pc = "pool"
    /\ IF actual_threads <= 0
       THEN /\ pc' = "done"
            /\ result' = ScanFailure(result)
       ELSE /\ pc' = "submit"
            /\ result' = result
    /\ UNCHANGED <<argVars, resolve_calls, ports_to_scan, future_to_port,
                   work_queue, probeVars, collected>>
    /\ UNCHANGED <<interrupt, profVars, utilVars>>

\* Mutant of Submit: the caller starts collecting right after the first
\* submission.
Submit_then_collect ==
    /\ pc = "submit"
    /\ LET port == ports_to_scan[Len(future_to_port) + 1] IN
         /\ future_to_port' = Append(future_to_port, port)
         /\ work_queue' = Append(work_queue, port)
    /\ pc' = "collect"
    /\ UNCHANGED <<argVars, resolve_calls, ports_to_scan, result, probeVars, collected>>
    /\ UNCHANGED <<interrupt, profVars, utilVars>>

\* executor.submit(_scan_single_port, target_ip, port, timeout) for the next
\* port of ports_to_scan; after the last one the caller enters as_completed.
Submit ==
    /\ pc = "submit"
    /\ LET port == ports_to_scan[Len(future_to_port) + 1] IN
         /\ future_to_port' = Append(future_to_port, port)
         /\ work_queue' = Append(work_queue, port)
    /\ pc' = IF Len(future_to_port) + 1 = Len(ports_to_scan) THEN "collect" ELSE "submit"
    /\ UNCHANGED <<argVars, resolve_calls, ports_to_scan, result, probeVars, collected>>
    /\ UNCHANGED <<interrupt, profVars, utilVars>>

\* A pool worker takes the oldest queued task and runs _scan_single_port up to
\* connect_ex. The pool runs at most actual_threads tasks at a time.
WorkerStart ==
    /\ variant = "range"
    /\ work_queue # <<>>
    /\ Cardinality(InFlight) < actual_threads
    /\ LET port == Head(work_queue)
           b == ProbeBegin(env[port], timeout) IN
         /\ probe' = [probe EXCEPT ![port] = b.st]
         /\ exc' = [exc EXCEPT ![port] = b.exc]
         /\ sock' = [sock EXCEPT ![port] = b.sock]
    /\ work_queue' = Tail(work_queue)
    /\ UNCHANGED <<pc, argVars, resolve_calls, ports_to_scan, result,
                   future_to_port, conn, attempts, dest, collected>>
    /\ UNCHANGED <<interrupt, profVars, utilVars>>

\* Mutant of WorkerFinish: a connect that did not succeed is tried a second
\* time before the port is classified.
WorkerFinish_retry(port) ==
    /\ variant = "range"
    /\ port \in DOMAIN probe
    /\ probe[port] = "connecting"
    /\ LET r == connect_ex(env[port], timeout) IN
         /\ conn' = conn @@ (port :> r)
         /\ probe' = [probe EXCEPT ![port] =
                        IF r # 0 /\ attempts[port] = 0 THEN "connecting" ELSE Classify(r)]
         /\ sock' = [sock EXCEPT ![port] =
                        IF r # 0 /\ attempts[port] = 0 THEN "open" ELSE "closed"]
    /\ attempts' = [attempts EXCEPT ![port] = @ + 1]
    /\ dest' = [dest EXCEPT ![port] = task_ip]
    /\ UNCHANGED <<pc, argVars, resolve_calls, ports_to_scan, result,
                   future_to_port, work_queue, exc, collected>>
    /\ UNCHANGED <<interrupt, profVars, utilVars>>

\* Mutant of WorkerFinish: a port whose connect did not succeed goes back to
\* pending and is queued once more.
WorkerFinish_requeue(port) ==
    /\ variant = "range"
    /\ port \in DOMAIN probe
    /\ probe[port] = "connecting"
    /\ LET r == connect_ex(env[port], timeout)
           again == r # 0 /\ attempts[port] = 0 IN
         /\ conn' = conn @@ (port :> r)
         /\ probe' = [probe EXCEPT ![port] = IF again THEN "pending" ELSE Classify(r)]
         /\ work_queue' = IF again THEN Append(work_queue, port) ELSE work_queue
    /\ attempts' = [attempts EXCEPT ![port] = @ + 1]
    /\ dest' = [dest EXCEPT ![port] = task_ip]
    /\ sock' = [sock EXCEPT ![port] = "closed"]
    /\ UNCHANGED <<pc, argVars, resolve_calls, ports_to_scan, result,
                   future_to_port, exc, collected>>
    /\ UNCHANGED <<interrupt, profVars, utilVars>>

\* Mutant of WorkerFinish: the worker itself appends the port to the shared
\* result lists instead of only returning the classification.
WorkerFinish_appends(port) ==
    /\ variant = "range"
    /\ port \in DOMAIN probe
    /\ probe[port] = "connecting"
    /\ LET r == connect_ex(env[port], timeout) IN
         /\ conn' = conn @@ (port :> r)
         /\ probe' = [probe EXCEPT ![port] = Classify(r)]
         /\ result' = Record(result, port, Classify(r))
    /\ attempts' = [attempts EXCEPT ![port] = @ + 1]
    /\ dest' = [dest EXCEPT ![port] = task_ip]
    /\ sock' = [sock EXCEPT ![port] = "closed"]
    /\ UNCHANGED <<pc, argVars, resolve_calls, ports_to_scan,
                   future_to_port, work_queue, exc, collected>>
    /\ UNCHANGED <<interrupt, profVars, utilVars>>

\* A worker's connect_ex returns; the socket is closed and the task returns
\* its classification.
WorkerFinish(port) ==
    /\ variant = "range"
    /\ port \in DOMAIN probe
    /\ probe[port] = "connecting"
    /\ LET r == connect_ex(env[port], timeout) IN
         /\ conn' = conn @@ (port :> r)
         /\ probe' = [probe EXCEPT ![port] = Classify(r)]
    /\ attempts' = [attempts EXCEPT ![port] = @ + 1]
    /\ dest' = [dest EXCEPT ![port] = task_ip]
    /\ sock' = [sock EXCEPT ![port] = "closed"]
    /\ UNCHANGED <<pc, argVars, resolve_calls, ports_to_scan, result,
                   future_to_port, work_queue, exc, collected>>
    /\ UNCHANGED <<interrupt, profVars, utilVars>>

\* Mutant of Collect: an exception caught inside a probe is re-raised to the
\* caller, whose except Exception turns it into a failed scan.
Collect_propagates(port) ==
    /\ pc = "collect"
    /\ port \in DOMAIN probe
    /\ probe[port] \in Terminal \cup {"raised"}
    /\ port \notin Range(collected)
    /\ IF exc[port] # "none"
       THEN /\ result' = ScanFailure(result)
            /\ pc' = "done"
       ELSE /\ result' = Record(result, port, probe[port])
            /\ pc' = pc
    /\ collected' = Append(collected, port)
    /\ UNCHANGED <<argVars, resolve_calls, ports_to_scan, future_to_port,
                   work_queue, probeVars>>
    /\ UNCHANGED <<interrupt, profVars, utilVars>>

\* One iteration of for future in as_completed(future_to_port): any finished
\* future not yet yielded; its port is appended to one of the three lists.
\* A future that raised is appended to filtered_ports; no probe reaches
\* "raised", because _scan_single_port catches every Exception itself.
Collect(port) ==
    /\ pc = "collect"
    /\ port \in DOMAIN probe
    /\ probe[port] \in Terminal \cup {"raised"}
    /\ port \notin Range(collected)
    /\ result' = IF probe[port] = "raised"
                 THEN [result EXCEPT !.filtered_ports = Append(@, port)]
                 ELSE Record(result, port, probe[port])
    /\ collected' = Append(collected, port)
    /\ UNCHANGED <<pc, argVars, resolve_calls, ports_to_scan, future_to_port,
                   work_queue, probeVars>>
    /\ UNCHANGED <<interrupt, profVars, utilVars>>

\* Leaving the with block: executor.shutdown(wait=True) returns once no task
\* is queued and no worker is running one.
pool_joined == work_queue = <<>> /\ InFlight = {}

\* Mutant of ScanPortsReturn: wait-for-first, the caller returns as soon as
\* one future was collected and does not join the pool.
ScanPortsReturn_first ==
    /\ pc = "collect"
    /\ collected # <<>>
    /\ result' = Finish(result)
    /\ pc' = "done"
    /\ UNCHANGED <<argVars, resolve_calls, ports_to_scan, future_to_port,
                   work_queue, probeVars, collected>>
    /\ UNCHANGED <<interrupt, profVars, utilVars>>

\* Mutant of ScanPortsReturn: the scan is reported as failed after its ports
\* were collected, the lists left as they are.
ScanPortsReturn_fails ==
    /\ pc = "collect"
    /\ Range(collected) = Range(ports_to_scan)
    /\ pool_joined
    /\ result' = ScanFailure(result)
    /\ pc' = "done"
    /\ UNCHANGED <<argVars, resolve_calls, ports_to_scan, future_to_port,
                   work_queue, probeVars, collected>>
    /\ UNCHANGED <<interrupt, profVars, utilVars>>

\* as_completed is exhausted, the pool is shut down, the lists are sorted and
\* scan_ports returns the report.
ScanPortsReturn ==
    /\ pc = "collect"
    /\ Range(collected) = Range(ports_to_scan)
    /\ pool_joined
    /\ result' = Finish(result)
    /\ pc' = "done"
    /\ UNCHANGED <<argVars, resolve_calls, ports_to_scan, future_to_port,
                   work_queue, probeVars, collected>>
    /\ UNCHANGED <<interrupt, profVars, utilVars>>

(* ------------------ scan_common_ports / _scan_port_list --------------- *)

\* Mutant of open_services: the table lookup always falls back to 'Unknown'.
open_services_unknown(res) ==
    [i \in 1 .. Len(res.open_ports) |->
        [port |-> res.open_ports[i], service |-> "Unknown", status |-> "open"]]

\* The open_services list scan_common_ports adds to a successful report.
open_services(res) ==
    [i \in 1 .. Len(res.open_ports) |->
        [port |-> res.open_ports[i],
         service |-> IF res.open_ports[i] \in DOMAIN common_ports
                     THEN common_ports[res.open_ports[i]] ELSE "Unknown",
         status |-> "open"]]

\* What scan_common_ports does with the result of _scan_port_list.
Annotate(res) ==
    IF res.success
    THEN res @@ [open_services |-> open_services(res), common_ports |-> common_ports]
    ELSE res

\* scan_common_ports(host, timeout) is called; it calls _scan_port_list.
CallScanCommonPorts ==
    /\ pc = "idle"
    /\ variant' = "common"
    /\ host' \in HostArgs
    /\ timeout' \in TimeoutArgs
    /\ env' \in CommonEnvs
    /\ pc' = "resolve"
    /\ UNCHANGED <<start_port, end_port, max_threads, resolve_calls,
                   ports_to_scan, result, future_to_port, work_queue,
                   probeVars, collected>>
    /\ UNCHANGED <<interrupt, profVars, utilVars>>

\* _scan_port_list: target_ip = socket.gethostbyname(host), then the result dict.
ScanPortListResolve ==
    /\ pc = "resolve"
    /\ variant = "common"
    /\ resolve_calls' = resolve_calls + 1
    /\ CASE gethostbyname(host) = "ok" ->
              /\ pc' = "list_loop"
              /\ result' = InitListReport(host, ports_list, timeout)
              /\ ports_to_scan' = ports_list
              /\ probe' = [p \in Range(ports_list) |-> "pending"]
              /\ exc' = [p \in Range(ports_list) |-> "none"]
              /\ sock' = [p \in Range(ports_list) |-> "none"]
              /\ attempts' = [p \in Range(ports_list) |-> 0]
              /\ dest' = [p \in Range(ports_list) |-> "none"]
         [] gethostbyname(host) = "gaierror" ->
              /\ pc' = "done"
              /\ result' = ResolveFailure(host)
              /\ UNCHANGED <<ports_to_scan, probe, exc, sock, attempts, dest>>
         [] OTHER ->
              /\ pc' = "raised"
              /\ UNCHANGED <<result, ports_to_scan, probe, exc, sock, attempts, dest>>
    /\ UNCHANGED <<argVars, future_to_port, work_queue, conn, collected>>
    /\ UNCHANGED <<interrupt, profVars, utilVars>>

\* Mutant of ListProbeStart: the next port's probe is started without waiting
\* for the probe in flight.
ListProbeStart_overlapping ==
    /\ pc = "list_loop"
    /\ \E i \in 1 .. Len(ports_to_scan) :
         /\ probe[ports_to_scan[i]] = "pending"
         /\ \A j \in 1 .. i - 1 : probe[ports_to_scan[j]] # "pending"
         /\ LET port == ports_to_scan[i]
                b == ProbeBegin(env[port], timeout) IN
              /\ probe' = [probe EXCEPT ![port] = b.st]
              /\ exc' = [exc EXCEPT ![port] = b.exc]
              /\ sock' = [sock EXCEPT ![port] = b.sock]
              /\ IF b.st \in Terminal
                 THEN /\ result' = Record(result, port, b.st)
                      /\ collected' = Append(collected, port)
                 ELSE UNCHANGED <<result, collected>>
    /\ UNCHANGED <<pc, argVars, resolve_calls, ports_to_scan, future_to_port,
                   work_queue, conn, attempts, dest>>
    /\ UNCHANGED <<interrupt, profVars, utilVars>>

\* for port in ports_list: the caller itself runs _scan_single_port up to
\* connect_ex; a probe that raised before connecting is classified at once.
ListProbeStart ==
    /\ pc = "list_loop"
    /\ InFlight = {}
    /\ Len(collected) < Len(ports_to_scan)
    /\ LET port == ports_to_scan[Len(collected) + 1]
           b == ProbeBegin(env[port], timeout) IN
         /\ probe' = [probe EXCEPT ![port] = b.st]
         /\ exc' = [exc EXCEPT ![port] = b.exc]
         /\ sock' = [sock EXCEPT ![port] = b.sock]
         /\ IF b.st \in Terminal
            THEN /\ result' = Record(result, port, b.st)
                 /\ collected' = Append(collected, port)
            ELSE UNCHANGED <<result, collected>>
    /\ UNCHANGED <<pc, argVars, resolve_calls, ports_to_scan, future_to_port,
                   work_queue, conn, attempts, dest>>
    /\ UNCHANGED <<interrupt, profVars, utilVars>>

\* connect_ex returns, the socket is closed, the port is appended to its list.
ListProbeFinish ==
    /\ pc = "list_loop"
    /\ InFlight # {}
    /\ LET port == ports_to_scan[Len(collected) + 1]
           r == connect_ex(env[port], timeout) IN
         /\ conn' = conn @@ (port :> r)
         /\ probe' = [probe EXCEPT ![port] = Classify(r)]
         /\ attempts' = [attempts EXCEPT ![port] = @ + 1]
         /\ dest' = [dest EXCEPT ![port] = task_ip]
         /\ sock' = [sock EXCEPT ![port] = "closed"]
         /\ result' = Record(result, port, Classify(r))
         /\ collected' = Append(collected, port)
    /\ UNCHANGED <<pc, argVars, resolve_calls, ports_to_scan, future_to_port,
                   work_queue, exc>>
    /\ UNCHANGED <<interrupt, profVars, utilVars>>

\* The loop is over: _scan_port_list sorts and returns, scan_common_ports adds
\* open_services and common_ports and returns.
ScanCommonPortsReturn ==
    /\ pc = "list_loop"
    /\ Len(collected) = Len(ports_to_scan)
    /\ result' = Annotate(Finish(result))
    /\ pc' = "done"
    /\ UNCHANGED <<argVars, resolve_calls, ports_to_scan, future_to_port,
                   work_queue, probeVars, collected>>
    /\ UNCHANGED <<interrupt, profVars, utilVars>>

(* --------------------------- specification ---------------------------- *)

Next ==
    \/ CallScanPorts
    \/ ScanPortsResolve
    \/ CreatePool
    \/ Submit
    \/ WorkerStart
    \/ \E port \in DOMAIN probe : WorkerFinish(port)
    \/ \E port \in DOMAIN probe : Collect(port)
    \/ ScanPortsReturn
    \/ CallScanCommonPorts
    \/ ScanPortListResolve
    \/ ListProbeStart
    \/ ListProbeFinish
    \/ ScanCommonPortsReturn

Spec == Init /\ [][Next]_vars

(* --------------------------- cancellation ----------------------------- *)

\* Ports whose probe has started.
Started == {p \in DOMAIN probe : probe[p] # "pending"}

\* KeyboardInterrupt (Ctrl-C) is raised in the thread that runs scan_ports
\* while it submits tasks or waits in as_completed. The exception unwinds into
\* the exit of the with block, executor.shutdown(wait=True), which lets the
\* workers run every task still queued.
Interrupt ==
    /\ pc \in {"submit", "collect"}
    /\ pc' = "cancelling"
    /\ interrupt' = [raised |-> TRUE, started |-> Started, collected |-> collected]
    /\ UNCHANGED <<argVars, resolve_calls, ports_to_scan, result, future_to_port,
                   work_queue, probeVars, collected, profVars, utilVars>>

\* The pool is joined and KeyboardInterrupt leaves scan_ports: except Exception
\* does not catch it, no report is returned, and main prints "Operation
\* cancelled by user".
InterruptPropagates ==
    /\ pc = "cancelling"
    /\ pool_joined
    /\ pc' = "interrupted"
    /\ UNCHANGED <<argVars, resolve_calls, ports_to_scan, result, future_to_port,
                   work_queue, probeVars, collected, interrupt, profVars, utilVars>>

NextCancel ==
    \/ Next
    \/ Interrupt
    \/ InterruptPropagates

SpecCancel == Init /\ [][NextCancel]_vars

(* ----------------------- PerformanceProfiler -------------------------- *)

RECURSIVE SumOver(_, _)
\* sum(f[n] for n in S)
SumOver(S, f) ==
    IF S = {} THEN 0
    ELSE LET n == CHOOSE x \in S : TRUE IN f[n] + SumOver(S \ {n}, f)

\* Keys of _metrics.
Present == {n \in Names : metrics[n].present}

\* Mutant of CanAcquire: the lock is not honoured, with self._lock never blocks.
CanAcquire_always == TRUE

\* with self._lock: threading.Lock.acquire returns only while no thread holds it.
CanAcquire == lock = 0

\* Where a thread continues once it holds the lock.
AfterAcquire(pos) ==
    CASE pos = "r_acquire" -> "r_insert"
      [] pos = "g_acquire" -> "g_read"
      [] pos = "s_acquire" -> "s_calls"
      [] pos = "c_acquire" -> "c_clear"

\* Positions a thread can only be at while inside a with self._lock block.
Locked == {"r_insert", "r_load", "r_store", "r_time", "r_errors", "r_release",
           "g_read", "g_errors", "g_release", "s_calls", "s_rest", "s_release",
           "c_clear"}

\* A thread enters with self._lock of the method it is running.
Acquire(t) ==
    /\ tpc[t] \in {"r_acquire", "g_acquire", "s_acquire", "c_acquire"}
    /\ CanAcquire
    /\ lock' = t
    /\ tpc' = [tpc EXCEPT ![t] = AfterAcquire(tpc[t])]
    /\ UNCHANGED <<metrics, enabled, targ, treg, completed, failed, spent, calls>>
    /\ UNCHANGED <<scanVars, interrupt, utilVars>>

\* A thread leaves the with block of get_metrics or get_summary and returns
\* the snapshot it built.
Release(t) ==
    /\ tpc[t] \in {"g_release", "s_release"}
    /\ lock' = 0
    /\ tpc' = [tpc EXCEPT ![t] = "idle"]
    /\ targ' = [targ EXCEPT ![t] = NoArgs]
    /\ treg' = [treg EXCEPT ![t] = NoRegs]
    /\ UNCHANGED <<metrics, enabled, completed, failed, spent, calls>>
    /\ UNCHANGED <<scanVars, interrupt, utilVars>>

\* enable(): one store, no lock.
Enable(t) ==
    /\ tpc[t] = "idle"
    /\ ~enabled
    /\ enabled' = TRUE
    /\ UNCHANGED <<metrics, lock, tpc, targ, treg, completed, failed, spent, calls>>
    /\ UNCHANGED <<scanVars, interrupt, utilVars>>

\* disable(): one store, no lock.
Disable(t) ==
    /\ tpc[t] = "idle"
    /\ enabled
    /\ enabled' = FALSE
    /\ UNCHANGED <<metrics, lock, tpc, targ, treg, completed, failed, spent, calls>>
    /\ UNCHANGED <<scanVars, interrupt, utilVars>>

\* record_call(function_name, execution_time, success) is called: it returns
\* at once when the profiler is disabled, else goes for the lock.
RecordCall(t) ==
    /\ tpc[t] = "idle"
    /\ calls < MaxCalls
    /\ calls' = calls + 1
    /\ IF enabled
       THEN \E n \in Names, x \in Times, ok \in BOOLEAN :
              /\ targ' = [targ EXCEPT ![t] = [name |-> n, time |-> x, success |-> ok]]
              /\ tpc' = [tpc EXCEPT ![t] = "r_acquire"]
       ELSE UNCHANGED <<targ, tpc>>
    /\ UNCHANGED <<metrics, lock, enabled, treg, completed, failed, spent>>
    /\ UNCHANGED <<scanVars, interrupt, utilVars>>

\* if function_name not in self._metrics: insert a fresh PerformanceMetrics.
RecordInsert(t) ==
    /\ tpc[t] = "r_insert"
    /\ metrics' = IF metrics[targ[t].name].present THEN metrics
                  ELSE [metrics EXCEPT ![targ[t].name] = NewEntry]
    /\ tpc' = [tpc EXCEPT ![t] = "r_load"]
    /\ UNCHANGED <<lock, enabled, targ, treg, completed, failed, spent, calls>>
    /\ UNCHANGED <<scanVars, interrupt, utilVars>>

\* update: self.call_count += 1, the load.
RecordLoad(t) ==
    /\ tpc[t] = "r_load"
    /\ treg' = [treg EXCEPT ![t].call_count = metrics[targ[t].name].call_count]
    /\ tpc' = [tpc EXCEPT ![t] = "r_store"]
    /\ UNCHANGED <<metrics, lock, enabled, targ, completed, failed, spent, calls>>
    /\ UNCHANGED <<scanVars, interrupt, utilVars>>

\* update: self.call_count += 1, the store.
RecordStore(t) ==
    /\ tpc[t] = "r_store"
    /\ metrics' = [metrics EXCEPT ![targ[t].name].call_count = treg[t].call_count + 1]
    /\ tpc' = [tpc EXCEPT ![t] = "r_time"]
    /\ UNCHANGED <<lock, enabled, targ, treg, completed, failed, spent, calls>>
    /\ UNCHANGED <<scanVars, interrupt, utilVars>>

\* update: self.total_time += execution_time (and the values derived from it).
RecordTime(t) ==
    /\ tpc[t] = "r_time"
    /\ metrics' = [metrics EXCEPT ![targ[t].name].total_time = @ + targ[t].time]
    /\ tpc' = [tpc EXCEPT ![t] = "r_errors"]
    /\ UNCHANGED <<lock, enabled, targ, treg, completed, failed, spent, calls>>
    /\ UNCHANGED <<scanVars, interrupt, utilVars>>

\* update: if not success: self.errors += 1.
RecordErrors(t) ==
    /\ tpc[t] = "r_errors"
    /\ metrics' = IF targ[t].success THEN metrics
                  ELSE [metrics EXCEPT ![targ[t].name].errors = @ + 1]
    /\ tpc' = [tpc EXCEPT ![t] = "r_release"]
    /\ UNCHANGED <<lock, enabled, targ, treg, completed, failed, spent, calls>>
    /\ UNCHANGED <<scanVars, interrupt, utilVars>>

\* record_call leaves the with block and returns: the invocation is complete.
RecordReturn(t) ==
    /\ tpc[t] = "r_release"
    /\ lock' = 0
    /\ completed' = [completed EXCEPT ![targ[t].name] = @ + 1]
    /\ failed' = [failed EXCEPT ![targ[t].name] = IF targ[t].success THEN @ ELSE @ + 1]
    /\ spent' = [spent EXCEPT ![targ[t].name] = @ + targ[t].time]
    /\ tpc' = [tpc EXCEPT ![t] = "idle"]
    /\ targ' = [targ EXCEPT ![t] = NoArgs]
    /\ treg' = [treg EXCEPT ![t] = NoRegs]
    /\ UNCHANGED <<metrics, enabled, calls>>
    /\ UNCHANGED <<scanVars, interrupt, utilVars>>

\* get_metrics(function_name) is called with a name. (Called without one it
\* copies every entry under the same lock, as get_summary reads them.)
GetMetrics(t) ==
    /\ tpc[t] = "idle"
    /\ calls < MaxCalls
    /\ calls' = calls + 1
    /\ \E n \in Names : targ' = [targ EXCEPT ![t] = [NoArgs EXCEPT !.name = n]]
    /\ tpc' = [tpc EXCEPT ![t] = "g_acquire"]
    /\ UNCHANGED <<metrics, lock, enabled, treg, completed, failed, spent>>
    /\ UNCHANGED <<scanVars, interrupt, utilVars>>

\* if function_name in self._metrics: to_dict() starts copying the entry
\* (call_count, total_time); else {} is returned.
GetRead(t) ==
    /\ tpc[t] = "g_read"
    /\ IF metrics[targ[t].name].present
       THEN /\ treg' = [treg EXCEPT ![t] =
                          [NoRegs EXCEPT !.found = TRUE,
                                         !.call_count = metrics[targ[t].name].call_count,
                                         !.total_time = metrics[targ[t].name].total_time]]
            /\ tpc' = [tpc EXCEPT ![t] = "g_errors"]
       ELSE /\ treg' = [treg EXCEPT ![t] = NoRegs]
            /\ tpc' = [tpc EXCEPT ![t] = "g_release"]
    /\ UNCHANGED <<metrics, lock, enabled, targ, completed, failed, spent, calls>>
    /\ UNCHANGED <<scanVars, interrupt, utilVars>>

\* to_dict() copies the last fields of the entry (errors, error_rate).
GetErrors(t) ==
    /\ tpc[t] = "g_errors"
    /\ treg' = [treg EXCEPT ![t].errors = metrics[targ[t].name].errors]
    /\ tpc' = [tpc EXCEPT ![t] = "g_release"]
    /\ UNCHANGED <<metrics, lock, enabled, targ, completed, failed, spent, calls>>
    /\ UNCHANGED <<scanVars, interrupt, utilVars>>

\* get_summary() is called.
GetSummary(t) ==
    /\ tpc[t] = "idle"
    /\ calls < MaxCalls
    /\ calls' = calls + 1
    /\ tpc' = [tpc EXCEPT ![t] = "s_acquire"]
    /\ UNCHANGED <<metrics, lock, enabled, targ, treg, completed, failed, spent>>
    /\ UNCHANGED <<scanVars, interrupt, utilVars>>

\* if not self._metrics: the all-zero summary; else total_calls is summed.
SummaryCalls(t) ==
    /\ tpc[t] = "s_calls"
    /\ IF Present = {}
       THEN /\ treg' = [treg EXCEPT ![t] = NoRegs]
            /\ tpc' = [tpc EXCEPT ![t] = "s_release"]
       ELSE /\ treg' = [treg EXCEPT ![t] =
                          [NoRegs EXCEPT !.found = TRUE,
                                         !.call_count =
                                            SumOver(Present, [n \in Names |-> metrics[n].call_count])]]
            /\ tpc' = [tpc EXCEPT ![t] = "s_rest"]
    /\ UNCHANGED <<metrics, lock, enabled, targ, completed, failed, spent, calls>>
    /\ UNCHANGED <<scanVars, interrupt, utilVars>>

\* total_time and total_errors are summed.
SummaryRest(t) ==
    /\ tpc[t] = "s_rest"
    /\ treg' = [treg EXCEPT
                  ![t].total_time = SumOver(Present, [n \in Names |-> metrics[n].total_time]),
                  ![t].errors = SumOver(Present, [n \in Names |-> metrics[n].errors])]
    /\ tpc' = [tpc EXCEPT ![t] = "s_release"]
    /\ UNCHANGED <<metrics, lock, enabled, targ, completed, failed, spent, calls>>
    /\ UNCHANGED <<scanVars, interrupt, utilVars>>

\* clear() is called.
Clear(t) ==
    /\ tpc[t] = "idle"
    /\ calls < MaxCalls
    /\ calls' = calls + 1
    /\ tpc' = [tpc EXCEPT ![t] = "c_acquire"]
    /\ UNCHANGED <<metrics, lock, enabled, targ, treg, completed, failed, spent>>
    /\ UNCHANGED <<scanVars, interrupt, utilVars>>

\* self._metrics.clear() under the lock, then the with block is left.
ClearRun(t) ==
    /\ tpc[t] = "c_clear"
    /\ metrics' = [n \in Names |-> NoEntry]
    /\ completed' = [n \in Names |-> 0]
    /\ failed' = [n \in Names |-> 0]
    /\ spent' = [n \in Names |-> 0]
    /\ lock' = 0
    /\ tpc' = [tpc EXCEPT ![t] = "idle"]
    /\ UNCHANGED <<enabled, targ, treg, calls>>
    /\ UNCHANGED <<scanVars, interrupt, utilVars>>

NextProfiler ==
    \E t \in Threads :
        \/ Enable(t)
        \/ Disable(t)
        \/ RecordCall(t)
        \/ GetMetrics(t)
        \/ GetSummary(t)
        \/ Clear(t)
        \/ Acquire(t)
        \/ RecordInsert(t)
        \/ RecordLoad(t)
        \/ RecordStore(t)
        \/ RecordTime(t)
        \/ RecordErrors(t)
        \/ RecordReturn(t)
        \/ GetRead(t)
        \/ GetErrors(t)
        \/ SummaryCalls(t)
        \/ SummaryRest(t)
        \/ Release(t)
        \/ ClearRun(t)

SpecProfiler == Init /\ [][NextProfiler]_vars

(* ------------------------ profile_performance ------------------------- *)

\* What a wrapped function does: it returns a non-dict value, a dict with
\* success True or False, a dict without the key, or it raises an Exception
\* or an exception outside the Exception hierarchy (KeyboardInterrupt,
\* SystemExit).
Outcomes == {"value", "dict_ok", "dict_fail", "dict_nokey", "Exception", "BaseException"}

\* The wrapper's local success when its finally block runs: False only when
\* except Exception caught the exception or the returned dict says so.
success_of(o) ==
    CASE o = "dict_fail" -> FALSE
      [] o = "Exception" -> FALSE
      [] OTHER -> TRUE

\* The invocation raised, or returned a dict with success = False.
Failing(o) == o \in {"Exception", "BaseException", "dict_fail"}

\* A wrapped function is called: wrapper(*args, **kwargs) starts.
WrapperCall(t) ==
    /\ wrapper[t].pc \in {"idle", "w_exit"}
    /\ tpc[t] = "idle"
    /\ calls < MaxCalls
    /\ calls' = calls + 1
    /\ \E n \in Names, o \in Outcomes :
         wrapper' = [wrapper EXCEPT ![t] =
                       [pc |-> "w_body", name |-> n, outcome |-> o,
                        success |-> TRUE, seen |-> "none"]]
    /\ UNCHANGED <<metrics, lock, enabled, tpc, targ, treg, completed, failed, spent>>
    /\ UNCHANGED <<scanVars, interrupt, winv, validateVars, bulkVars, latencyVars,
                   publicIpVars>>

\* func returns or raises; the try / except Exception sets success.
WrapperBody(t) ==
    /\ wrapper[t].pc = "w_body"
    /\ wrapper' = [wrapper EXCEPT ![t].pc = "w_finally",
                                  ![t].success = success_of(wrapper[t].outcome)]
    /\ UNCHANGED <<coreVars, winv, validateVars, bulkVars, latencyVars, publicIpVars>>

\* finally: _global_profiler.record_call(function_name, execution_time,
\* success) is called; it returns at once when monitoring is disabled.
WrapperFinally(t) ==
    /\ wrapper[t].pc = "w_finally"
    /\ IF enabled
       THEN /\ \E x \in Times :
                 targ' = [targ EXCEPT ![t] = [name |-> wrapper[t].name, time |-> x,
                                              success |-> wrapper[t].success]]
            /\ tpc' = [tpc EXCEPT ![t] = "r_acquire"]
            /\ wrapper' = [wrapper EXCEPT ![t].pc = "w_record"]
            /\ winv' = [done |-> [winv.done EXCEPT ![wrapper[t].name] = @ + 1],
                        failing |-> [winv.failing EXCEPT ![wrapper[t].name] =
                                       IF Failing(wrapper[t].outcome) THEN @ + 1 ELSE @]]
       ELSE /\ wrapper' = [wrapper EXCEPT ![t].pc = "w_exit",
                                          ![t].seen = wrapper[t].outcome]
            /\ UNCHANGED <<targ, tpc, winv>>
    /\ UNCHANGED <<metrics, lock, enabled, treg, completed, failed, spent, calls>>
    /\ UNCHANGED <<scanVars, interrupt, validateVars, bulkVars, latencyVars, publicIpVars>>

\* record_call has returned: the wrapper returns func's result or lets the
\* exception go on to the caller.
WrapperExit(t) ==
    /\ wrapper[t].pc = "w_record"
    /\ tpc[t] = "idle"
    /\ wrapper' = [wrapper EXCEPT ![t].pc = "w_exit", ![t].seen = wrapper[t].outcome]
    /\ UNCHANGED <<coreVars, winv, validateVars, bulkVars, latencyVars, publicIpVars>>

NextWrapper ==
    \E t \in Threads :
        \/ WrapperCall(t)
        \/ WrapperBody(t)
        \/ WrapperFinally(t)
        \/ WrapperExit(t)
        \/ Enable(t)
        \/ Disable(t)
        \/ Acquire(t)
        \/ RecordInsert(t)
        \/ RecordLoad(t)
        \/ RecordStore(t)
        \/ RecordTime(t)
        \/ RecordErrors(t)
        \/ RecordReturn(t)

SpecWrapper == Init /\ [][NextWrapper]_vars

(* ------------------------- dns_bulk_lookup ---------------------------- *)

\* Items of a hostnames list: a name that resolves, a well-formed name that
\* does not exist, a malformed name (empty, a label starting with '-', ...)
\* and an item that is not a string at all (None passes as malformed; an int
\* makes len() raise inside dns_lookup).
HostItems == {"ok.example", "nx.invalid", "-malformed", "not-a-string"}

\* Lists of at most MaxHosts items.
HostLists == UNION {[1 .. k -> HostItems] : k \in 0 .. MaxHosts}

\* dns_lookup(hostname): the dict it returns (lookup_time left out). Every
\* exception is caught inside it.
dns_lookup(h) ==
    CASE h = "ok.example" ->
           [success |-> TRUE, hostname |-> h, ip |-> "ip", error |-> "None"]
      [] h = "nx.invalid" ->
           [success |-> FALSE, hostname |-> h, ip |-> "None", error |-> "DNS lookup failed"]
      [] h = "-malformed" ->
           [success |-> FALSE, hostname |-> h, ip |-> "None", error |-> "Invalid hostname format"]
      [] OTHER ->
           [success |-> FALSE, hostname |-> h, ip |-> "None", error |-> "DNS lookup error"]

\* dns_bulk_lookup(hostnames) is called; anything but a list is refused.
DnsBulkCall ==
    /\ bulk_pc = "idle"
    /\ \E l \in BOOLEAN, hs \in HostLists :
         /\ bulk_hostnames' = [is_list |-> l, items |-> hs]
         /\ IF l
            THEN /\ bulk_pc' = "loop"
                 /\ bulk_out' = bulk_out
            ELSE /\ bulk_pc' = "done"
                 /\ bulk_out' = [success |-> FALSE, error |-> "hostnames must be a list"]
    /\ UNCHANGED <<bulk_results, bulk_successful, bulk_failed>>
    /\ UNCHANGED <<coreVars, validateVars, wrapperVars, latencyVars, publicIpVars>>

\* Mutant of DnsBulkLookupNext: a failed lookup ends the bulk operation with
\* a failure.
DnsBulkLookupNext_abort ==
    /\ bulk_pc = "loop"
    /\ Len(bulk_results) < Len(bulk_hostnames.items)
    /\ LET lookup_result == dns_lookup(bulk_hostnames.items[Len(bulk_results) + 1]) IN
         IF lookup_result.success
         THEN /\ bulk_results' = Append(bulk_results, lookup_result)
              /\ bulk_successful' = bulk_successful + 1
              /\ UNCHANGED <<bulk_pc, bulk_failed, bulk_out>>
         ELSE /\ bulk_pc' = "done"
              /\ bulk_out' = [success |-> FALSE, error |-> lookup_result.error]
              /\ UNCHANGED <<bulk_results, bulk_successful, bulk_failed>>
    /\ UNCHANGED bulk_hostnames
    /\ UNCHANGED <<coreVars, validateVars, wrapperVars, latencyVars, publicIpVars>>

\* One iteration of for hostname in hostnames: the lookup, the append and
\* one of the two counters.
DnsBulkLookupNext ==
    /\ bulk_pc = "loop"
    /\ Len(bulk_results) < Len(bulk_hostnames.items)
    /\ LET lookup_result == dns_lookup(bulk_hostnames.items[Len(bulk_results) + 1]) IN
         /\ bulk_results' = Append(bulk_results, lookup_result)
         /\ IF lookup_result.success
            THEN /\ bulk_successful' = bulk_successful + 1
                 /\ bulk_failed' = bulk_failed
            ELSE /\ bulk_failed' = bulk_failed + 1
                 /\ bulk_successful' = bulk_successful
    /\ UNCHANGED <<bulk_pc, bulk_hostnames, bulk_out>>
    /\ UNCHANGED <<coreVars, validateVars, wrapperVars, latencyVars, publicIpVars>>

\* The loop is over: the summary dict is returned.
DnsBulkReturn ==
    /\ bulk_pc = "loop"
    /\ Len(bulk_results) = Len(bulk_hostnames.items)
    /\ bulk_out' = [success |-> TRUE,
                    total_hostnames |-> Len(bulk_hostnames.items),
                    successful_lookups |-> bulk_successful,
                    failed_lookups |-> bulk_failed,
                    results |-> bulk_results]
    /\ bulk_pc' = "done"
    /\ UNCHANGED <<bulk_hostnames, bulk_results, bulk_successful, bulk_failed>>
    /\ UNCHANGED <<coreVars, validateVars, wrapperVars, latencyVars, publicIpVars>>

NextBulk ==
    \/ DnsBulkCall
    \/ DnsBulkLookupNext
    \/ DnsBulkReturn

SpecBulk == Init /\ [][NextBulk]_vars

(* ------------------------- ping_latency_test -------------------------- *)

\* Values of the count argument, a number of pings.
LatCounts == 0 .. MaxCount

\* What ping(host, count=1, timeout=3) can return: a failure, a success whose
\* avg_time is a positive round-trip time, and a success whose avg_time is
\* falsy (None when the output had no timing line, or 0.0), written 0.
PingResults ==
    {[success |-> FALSE, avg_time |-> 0],
     [success |-> TRUE, avg_time |-> 0],
     [success |-> TRUE, avg_time |-> 5],
     [success |-> TRUE, avg_time |-> 9]}

RECURSIVE min_latency(_)
min_latency(l) ==
    IF Len(l) = 1 THEN l[1]
    ELSE LET m == min_latency(Tail(l)) IN IF l[1] < m THEN l[1] ELSE m

RECURSIVE max_latency(_)
max_latency(l) ==
    IF Len(l) = 1 THEN l[1]
    ELSE LET m == max_latency(Tail(l)) IN IF l[1] > m THEN l[1] ELSE m

\* ping_latency_test(host, count) is called: the result dict and the local
\* accumulators are set up. The averaged fields (avg_latency, jitter,
\* packet_loss_percent) are left out.
PingLatencyCall ==
    /\ lat_pc = "idle"
    /\ \E count \in LatCounts :
         /\ lat_count' = count
         /\ lat_result' = [success |-> FALSE,
                           total_pings |-> count,
                           successful_pings |-> 0,
                           failed_pings |-> 0,
                           latencies |-> <<>>,
                           min_latency |-> 0,
                           max_latency |-> 0,
                           error |-> "None"]
    /\ latencies' = <<>>
    /\ lat_successful' = 0
    /\ lat_pings' = 0
    /\ lat_pc' = "loop"
    /\ UNCHANGED <<coreVars, validateVars, wrapperVars, bulkVars, publicIpVars>>

\* One iteration of for i in range(count): one ping; it counts when it
\* succeeded with a truthy avg_time.
PingLatencyStep ==
    /\ lat_pc = "loop"
    /\ lat_pings < lat_count
    /\ \E ping_result \in PingResults :
         IF ping_result.success /\ ping_result.avg_time # 0
         THEN /\ latencies' = Append(latencies, ping_result.avg_time)
              /\ lat_successful' = lat_successful + 1
         ELSE UNCHANGED <<latencies, lat_successful>>
    /\ lat_pings' = lat_pings + 1
    /\ UNCHANGED <<lat_pc, lat_count, lat_result>>
    /\ UNCHANGED <<coreVars, validateVars, wrapperVars, bulkVars, publicIpVars>>

\* After the loop: the counters are written into the result only when some
\* ping succeeded; otherwise only the error is set.
PingLatencyReturn ==
    /\ lat_pc = "loop"
    /\ ~(lat_pings < lat_count)
    /\ IF latencies # <<>>
       THEN lat_result' = [lat_result EXCEPT
                             !.success = TRUE,
                             !.successful_pings = lat_successful,
                             !.failed_pings = lat_count - lat_successful,
                             !.latencies = latencies,
                             !.min_latency = min_latency(latencies),
                             !.max_latency = max_latency(latencies)]
       ELSE lat_result' = [lat_result EXCEPT !.error = "All pings failed"]
    /\ lat_pc' = "done"
    /\ UNCHANGED <<lat_count, lat_pings, latencies, lat_successful>>
    /\ UNCHANGED <<coreVars, validateVars, wrapperVars, bulkVars, publicIpVars>>

NextLatency ==
    \/ PingLatencyCall
    \/ PingLatencyStep
    \/ PingLatencyReturn

SpecLatency == Init /\ [][NextLatency]_vars

(* --------------------------- get_public_ip ---------------------------- *)

\* The services list, in its order; json_key is None for the last one.
services ==
    <<[name |-> "ipify", json_key |-> TRUE],
      [name |-> "ipapi", json_key |-> TRUE],
      [name |-> "httpbin", json_key |-> TRUE],
      [name |-> "jsonip", json_key |-> TRUE],
      [name |-> "ipify_text", json_key |-> FALSE]>>

\* One dot-separated part of an address text: plain says it is written in
\* ASCII digits only; int_ok says int(part) returns, and n is what it returns.
\* int() also reads a sign, surrounding blanks and non-ASCII digits.
Digits(n) == [plain |-> TRUE, int_ok |-> TRUE, n |-> n]
Signed(n) == [plain |-> FALSE, int_ok |-> TRUE, n |-> n]
Letters == [plain |-> FALSE, int_ok |-> FALSE, n |-> 0]

\* Address texts a service can answer with (the value under json_key, or
\* the stripped body).
IpTexts ==
    {[text |-> "1.2.3.4", parts |-> <<Digits(1), Digits(2), Digits(3), Digits(4)>>],
     [text |-> "1.2.3.+4", parts |-> <<Digits(1), Digits(2), Digits(3), Signed(4)>>],
     [text |-> "256.1.1.1", parts |-> <<Digits(256), Digits(1), Digits(1), Digits(1)>>],
     [text |-> "1.2.3", parts |-> <<Digits(1), Digits(2), Digits(3)>>],
     [text |-> "unknown", parts |-> <<Letters>>],
     [text |-> "", parts |-> <<Letters>>]}

NoIp == [text |-> "", parts |-> <<Letters>>]

\* What contacting a service leads to: a body carrying an address text, or
\* an exception raised by urlopen, read, decode or json.loads. The plain-text
\* service never parses JSON.
ResponsesOf(service) ==
    {[kind |-> "body", ip |-> t] : t \in IpTexts}
      \cup {[kind |-> k, ip |-> NoIp] : k \in {"URLError", "HTTPError", "Exception"}}
      \cup (IF service.json_key THEN {[kind |-> "JSONDecodeError", ip |-> NoIp]} ELSE {})

\* _is_valid_ip(ip): four parts, each read by int() into 0..255.
is_valid_ip(ip) ==
    /\ Len(ip.parts) = 4
    /\ \A i \in 1 .. Len(ip.parts) :
         ip.parts[i].int_ok /\ 0 <= ip.parts[i].n /\ ip.parts[i].n <= 255

\* The entry appended to errors for a response that is not returned.
\* HTTPError is a URLError and is caught by the first except clause.
ErrorOf(service, r) ==
    [service |-> service.name,
     error |-> CASE r.kind = "body" -> "Invalid IP format"
                 [] r.kind \in {"URLError", "HTTPError"} -> "Network error"
                 [] r.kind = "JSONDecodeError" -> "JSON parse error"
                 [] OTHER -> "Exception"]

\* get_public_ip() is called.
GetPublicIpCall ==
    /\ ip_pc = "idle"
    /\ ip_pc' = "loop"
    /\ ip_errors' = <<>>
    /\ UNCHANGED <<ip_responses, ip_contacted, ip_out>>
    /\ UNCHANGED <<coreVars, validateVars, wrapperVars, bulkVars, latencyVars>>

\* One iteration of for service in services: the request, the answer, and
\* either the return of the address or one more entry in errors.
ContactService ==
    /\ ip_pc = "loop"
    /\ Len(ip_contacted) < Len(services)
    /\ LET service == services[Len(ip_contacted) + 1] IN
         /\ ip_contacted' = Append(ip_contacted, service.name)
         /\ \E r \in ResponsesOf(service) :
              /\ ip_responses' = Append(ip_responses, r)
              /\ IF r.kind = "body" /\ r.ip.text # "" /\ is_valid_ip(r.ip)
                 THEN /\ ip_out' = [success |-> TRUE,
                                    ip |-> r.ip.text,
                                    service |-> service.name,
                                    error |-> "None"]
                      /\ ip_pc' = "done"
                      /\ ip_errors' = ip_errors
                 ELSE /\ ip_errors' = Append(ip_errors, ErrorOf(service, r))
                      /\ UNCHANGED <<ip_pc, ip_out>>
    /\ UNCHANGED <<coreVars, validateVars, wrapperVars, bulkVars, latencyVars>>

\* The loop ran out of services.
GetPublicIpReturn ==
    /\ ip_pc = "loop"
    /\ Len(ip_contacted) = Len(services)
    /\ ip_out' = [success |-> FALSE,
                  ip |-> "None",
                  error |-> "All IP services failed",
                  service_errors |-> ip_errors]
    /\ ip_pc' = "done"
    /\ UNCHANGED <<ip_responses, ip_contacted, ip_errors>>
    /\ UNCHANGED <<coreVars, validateVars, wrapperVars, bulkVars, latencyVars>>

NextPublicIp ==
    \/ GetPublicIpCall
    \/ ContactService
    \/ GetPublicIpReturn

SpecPublicIp == Init /\ [][NextPublicIp]_vars

(* ----------------------- utils.validate_port_range -------------------- *)

\* Port arguments tried: text int() rejects, and integers around the limits
\* of the port space and of the range size.
VrPortArgs ==
    {[text |-> TRUE, n |-> 0]} \cup
    {[text |-> FALSE, n |-> v] :
        v \in {0, 1, 2, 10000, 10001, 10002, 55535, 65535, 65536}}

\* raise ValidationError(msg, ...)
Raise(msg) == [ok |-> FALSE, value |-> <<0, 0>>, error |-> msg]

\* validate_port(port): the integer, or the ValidationError raised.
validate_port(a) ==
    IF a.text THEN [ok |-> FALSE, value |-> 0, error |-> "Port must be a valid integer"]
    ELSE IF ~(MinPort <= a.n /\ a.n <= MaxPort)
    THEN [ok |-> FALSE, value |-> 0, error |-> "Port must be between 1 and 65535"]
    ELSE [ok |-> TRUE, value |-> a.n, error |-> "none"]

\* validate_port_range(start_port, end_port): the tuple (start, end), or the
\* ValidationError raised.
validate_port_range(a, b) ==
    LET start == validate_port(a)
        end == validate_port(b) IN
      IF ~start.ok THEN Raise(start.error)
      ELSE IF ~end.ok THEN Raise(end.error)
      ELSE IF start.value > end.value
      THEN Raise("Start port cannot be greater than end port")
      ELSE IF end.value - start.value > RangeLimit
      THEN Raise("Port range too large (max 10000 ports)")
      ELSE [ok |-> TRUE, value |-> <<start.value, end.value>>, error |-> "none"]

\* validate_port_range is called.
CallValidatePortRange ==
    /\ vr_pc = "idle"
    /\ \E a \in VrPortArgs, b \in VrPortArgs : vr_args' = <<a, b>>
    /\ vr_pc' = "called"
    /\ UNCHANGED vr_out
    /\ UNCHANGED <<coreVars, wrapperVars, bulkVars, latencyVars, publicIpVars>>

\* validate_port_range returns its tuple or raises.
ValidatePortRangeReturn ==
    /\ vr_pc = "called"
    /\ vr_out' = validate_port_range(vr_args[1], vr_args[2])
    /\ vr_pc' = "done"
    /\ UNCHANGED vr_args
    /\ UNCHANGED <<coreVars, wrapperVars, bulkVars, latencyVars, publicIpVars>>

NextValidate ==
    \/ CallValidatePortRange
    \/ ValidatePortRangeReturn

SpecValidate == Init /\ [][NextValidate]_vars

(* ------------------------------ claims -------------------------------- *)

\* The requested port set P of the invocation.
Requested == IF variant = "range" THEN start_port .. end_port ELSE Range(ports_list)

\* The call has returned a report with success = True.
Succeeded == pc = "done" /\ result.success

StrictlyAscending(s) == \A i \in 1 .. Len(s) - 1 : s[i] < s[i + 1]

\* The port range of the call breaks 1 <= start_port <= end_port <= 65535.
InvalidRange ==
    \/ start_port < 1 \/ start_port > 65535
    \/ end_port < 1 \/ end_port > 65535
    \/ start_port > end_port

\* No task was submitted, no probe started and no socket was created.
NoNetworkProbe ==
    /\ future_to_port = <<>>
    /\ work_queue = <<>>
    /\ \A p \in DOMAIN probe : probe[p] = "pending"
    /\ \A p \in DOMAIN sock : sock[p] = "none"
    /\ conn = NoPorts

\* C1: in every report returned with success = True, by scan_ports or by
\* scan_common_ports, open_ports, closed_ports and filtered_ports are pairwise
\* disjoint, hold no port twice, and their union is exactly the requested
\* port set, so the three lengths add up to |P|.
C1_Partition ==
    Succeeded =>
        LET O == Range(result.open_ports)
            C == Range(result.closed_ports)
            F == Range(result.filtered_ports) IN
          /\ O \cap C = {} /\ O \cap F = {} /\ C \cap F = {}
          /\ O \cup C \cup F = Requested
          /\ Len(result.open_ports) + Len(result.closed_ports)
               + Len(result.filtered_ports) = Cardinality(Requested)

\* C1 witness: a successful range scan whose three lists are all non-empty.
C1_Witness ==
    /\ Succeeded /\ variant = "range"
    /\ result.open_ports # <<>> /\ result.closed_ports # <<>>
    /\ result.filtered_ports # <<>>

\* C2: in every successful report of scan_ports the three port lists are
\* strictly ascending, whatever order the probes were collected in.
C2_Sorted ==
    (Succeeded /\ variant = "range") =>
        /\ StrictlyAscending(result.open_ports)
        /\ StrictlyAscending(result.closed_ports)
        /\ StrictlyAscending(result.filtered_ports)

\* C2 witness: a successful scan whose closed_ports holds three ports that
\* were collected in descending order.
C2_Witness ==
    /\ Succeeded /\ variant = "range"
    /\ Len(result.closed_ports) = 3
    /\ Len(collected) = 3
    /\ collected[1] > collected[2] /\ collected[2] > collected[3]

\* C3: total_ports_scanned of a scan_ports report is end_port - start_port + 1,
\* and in a successful report it is the number of classified ports; a probe
\* that raised an exception is in filtered_ports.
C3_TotalScanned ==
    (pc = "done" /\ variant = "range" /\ "total_ports_scanned" \in DOMAIN result) =>
        /\ result.total_ports_scanned = end_port - start_port + 1
        /\ result.success =>
             /\ Len(result.open_ports) + Len(result.closed_ports)
                  + Len(result.filtered_ports) = result.total_ports_scanned
             /\ \A p \in start_port .. end_port :
                  exc[p] # "none" => p \in Range(result.filtered_ports)

\* C3 witness: a successful three-port scan in which one probe raised and
\* another finished normally.
C3_Witness ==
    /\ Succeeded /\ variant = "range"
    /\ result.total_ports_scanned = 3
    /\ \E p, q \in start_port .. end_port :
         /\ exc[p] = "socket" /\ p \in Range(result.filtered_ports)
         /\ exc[q] = "none" /\ q \in Range(result.open_ports)

\* C4: when the host does not resolve, the scan (either variant) stops at the
\* resolution step: no task is submitted, no probe starts, no socket is
\* created, and a returned result is the resolution error without any of the
\* report's port lists.
C4_ResolutionFailure ==
    (variant # "none" /\ host # "host.example") =>
        /\ NoNetworkProbe
        /\ resolve_calls <= 1
        /\ resolve_calls = 1 => pc \in {"done", "raised"}
        /\ (pc = "done" /\ resolve_calls = 1) =>
             /\ result.success = FALSE
             /\ result.error = "Failed to resolve hostname"
             /\ DOMAIN result \cap {"open_ports", "closed_ports", "filtered_ports"} = {}

\* C4 witness: a scan of a name that does not exist has returned its error.
C4_Witness ==
    /\ pc = "done" /\ host = "nx.invalid" /\ resolve_calls = 1
    /\ result.error = "Failed to resolve hostname"

\* C5: scan_ports called with an invalid port range returns an error result
\* without resolving the host and without any probe.
C5_InvalidRange ==
    (variant = "range" /\ InvalidRange) =>
        /\ pc = "done"
        /\ result.success = FALSE
        /\ result.error \in {"Start port must be between 1 and 65535",
                             "End port must be between 1 and 65535",
                             "Start port cannot be greater than end port"}
        /\ resolve_calls = 0
        /\ NoNetworkProbe

\* C5 witness: a call with start_port > end_port (both in 1..65535) was rejected.
C5_Witness ==
    /\ pc = "done" /\ variant = "range"
    /\ start_port > end_port /\ start_port <= 65535 /\ end_port >= 1
    /\ result.error = "Start port cannot be greater than end port"

\* C6 (as claimed): scan_ports called with a valid port range and a
\* non-positive timeout or max_threads is rejected before any network
\* activity: the host is never resolved, no probe runs, the result is an error.
C6_ConfigRejected ==
    (variant = "range" /\ ~InvalidRange /\ (timeout <= 0 \/ max_threads <= 0)) =>
        /\ resolve_calls = 0
        /\ NoNetworkProbe
        /\ pc = "done" => result.success = FALSE

\* C7: during scan_ports of a valid port range P with max_threads >= 1, at
\* most min(max_threads, |P|) probes are in flight at any time.
C7_ConcurrencyBound ==
    (variant = "range" /\ ~InvalidRange /\ max_threads >= 1) =>
        Cardinality(InFlight) <= Min(max_threads, end_port - start_port + 1)

\* C7 witness: max_threads = 2, two probes in flight and a third task waiting.
C7_Witness ==
    /\ variant = "range" /\ max_threads = 2
    /\ Cardinality(InFlight) = 2
    /\ work_queue # <<>>

\* C8 (as claimed): a finished probe whose connection neither succeeded nor
\* was refused (deadline passed, host unreachable) is classified filtered.
C8_AmbiguousFiltered ==
    \A p \in DOMAIN conn :
        (conn[p] # 0 /\ conn[p] # ECONNREFUSED) => probe[p] = "filtered"

\* C9: a probe is classified open exactly when its connect_ex returned 0, and
\* a successful report lists in open_ports exactly the ports whose connect_ex
\* returned 0; such a port has an accepting listener.
C9_OpenIffConnected ==
    /\ \A p \in DOMAIN probe :
         probe[p] = "open" <=> (p \in DOMAIN conn /\ conn[p] = 0)
    /\ Succeeded =>
         \A p \in Requested :
           /\ p \in Range(result.open_ports) <=> (p \in DOMAIN conn /\ conn[p] = 0)
           /\ p \in Range(result.open_ports) => env[p] = "accept"
           /\ (env[p] = "accept" /\ timeout > 0) => p \in Range(result.open_ports)

\* C9 witness: a successful report with a connected port in open_ports and a
\* port whose connect failed outside open_ports.
C9_Witness ==
    /\ Succeeded
    /\ \E p, q \in Requested :
         /\ p \in DOMAIN conn /\ conn[p] = 0 /\ p \in Range(result.open_ports)
         /\ q \in DOMAIN conn /\ conn[q] # 0 /\ q \notin Range(result.open_ports)

\* C10 (as claimed): a finished probe is classified closed exactly when its
\* connection was actively refused.
C10_ClosedIffRefused ==
    \A p \in DOMAIN probe :
        probe[p] \in Terminal =>
            (probe[p] = "closed" <=> (p \in DOMAIN conn /\ conn[p] = ECONNREFUSED))

\* C11: scan_ports returns only after every dispatched probe has completed:
\* when it has returned, no task is queued or running in the pool, every
\* submitted port has a final classification that the caller collected, and
\* the report does not change after the return.
C11_WaitForAll ==
    /\ []((pc = "done" /\ variant = "range") =>
            /\ pool_joined
            /\ \A p \in Range(future_to_port) :
                 probe[p] \in Terminal /\ p \in Range(collected))
    /\ [][pc = "done" => result' = result]_vars

\* C11 witness: a three-port scan run by a single worker has returned.
C11_Witness ==
    /\ Succeeded /\ variant = "range"
    /\ max_threads = 1 /\ Len(future_to_port) = 3
    /\ \A p \in Range(future_to_port) : probe[p] \in Terminal

NoDuplicates(s) == \A i, j \in 1 .. Len(s) : i # j => s[i] # s[j]

\* C12 (as claimed): in a successful report every requested port was probed
\* by exactly one connect attempt.
C12_ExactlyOneConnect ==
    Succeeded => \A p \in Requested : attempts[p] = 1

\* C12 (amended): one task is submitted per port and each port is collected
\* once; a probe makes at most one connect attempt and is never retried: a
\* classified port saw exactly one connect_ex call, or none when creating or
\* configuring its socket raised first.
C12_ProbedOnce ==
    /\ NoDuplicates(future_to_port)
    /\ NoDuplicates(collected)
    /\ Range(future_to_port) \subseteq Requested
    /\ (variant = "range" /\ pc = "collect") => Range(future_to_port) = Requested
    /\ \A p \in DOMAIN attempts :
         /\ attempts[p] <= 1
         /\ probe[p] \in Terminal => attempts[p] = (IF exc[p] = "none" THEN 1 ELSE 0)
         /\ probe[p] \in {"pending", "connecting"} => attempts[p] = 0
    /\ Succeeded => \A p \in Requested : probe[p] \in Terminal

\* C12 witness: a successful three-port scan in which one port was refused,
\* one timed out and one could not get a socket; each was tried at most once.
C12_Witness ==
    /\ Succeeded /\ variant = "range" /\ Len(future_to_port) = 3
    /\ \E p, q, r \in Requested :
         /\ conn = (p :> ECONNREFUSED) @@ (q :> EAGAIN)
         /\ attempts[p] = 1 /\ attempts[q] = 1
         /\ exc[r] = "socket" /\ attempts[r] = 0

\* The call got past validation, resolution and pool creation: the port range
\* is valid, the host resolves and max_threads >= 1.
PoolCreated ==
    /\ variant = "range" /\ ~InvalidRange
    /\ host = "host.example" /\ max_threads >= 1

\* C13: once the port range is valid, the host resolves and the pool is
\* created, scan_ports returns success = True with error = None whatever the
\* probes did (connected, refused, timed out, unreachable, raised); the scan
\* never ends in an uncaught exception.
C13_ProbeFailuresAbsorbed ==
    PoolCreated =>
        /\ pc # "raised"
        /\ pc = "done" => (result.success /\ result.error = "None")

\* C13 witness: a returned scan with one probe that raised inside the task,
\* one that timed out and one that was refused.
C13_Witness ==
    /\ PoolCreated /\ pc = "done"
    /\ \E p, q, r \in Requested :
         /\ exc[p] = "socket"
         /\ q \in DOMAIN conn /\ conn[q] = EAGAIN
         /\ r \in DOMAIN conn /\ conn[r] = ECONNREFUSED

\* C14 (as claimed): when no socket can be created for any requested port,
\* scan_ports does not return a successful report.
C14_SystemicFailurePropagates ==
    (pc = "done" /\ PoolCreated /\ \A p \in Requested : env[p] = "nosock") =>
        ~result.success

\* C16 (as claimed): when a scan invocation has completed, every socket a
\* probe opened has been closed and the pool has no queued or running task.
C16_SocketsClosed ==
    pc \in {"done", "raised"} =>
        /\ \A p \in DOMAIN sock : sock[p] # "open"
        /\ pool_joined

\* C17: in a successful scan_common_ports report, open_services has one entry
\* per port of open_ports, in the same ascending order, each with status
\* 'open' and the port's service name from the static table; when exactly
\* ports 80 and 443 accept connections, open_ports is [80, 443] and the
\* entries are annotated 'HTTP' and 'HTTPS'.
C17_OpenServices ==
    (Succeeded /\ variant = "common") =>
        /\ StrictlyAscending(result.open_ports)
        /\ Len(result.open_services) = Len(result.open_ports)
        /\ \A i \in 1 .. Len(result.open_ports) :
             /\ result.open_services[i].port = result.open_ports[i]
             /\ result.open_services[i].status = "open"
             /\ result.open_services[i].service = common_ports[result.open_ports[i]]
        /\ (timeout > 0 /\ {p \in Requested : env[p] = "accept"} = {80, 443}) =>
             /\ result.open_ports = <<80, 443>>
             /\ result.open_services =
                  <<[port |-> 80, service |-> "HTTP", status |-> "open"],
                    [port |-> 443, service |-> "HTTPS", status |-> "open"]>>

\* C17 witness: a common-ports scan of a host where only 80 and 443 accept
\* has returned with both ports open.
C17_Witness ==
    /\ Succeeded /\ variant = "common" /\ timeout > 0
    /\ {p \in Requested : env[p] = "accept"} = {80, 443}
    /\ Len(result.open_services) = 2

\* The classification a probe of port p ends with, from the arguments and the
\* port's connect outcome alone.
OutcomeOf(p) ==
    LET b == ProbeBegin(env[p], timeout) IN
      IF b.st \in Terminal THEN b.st ELSE Classify(connect_ex(env[p], timeout))

\* The ports of the requested range with outcome st, ascending.
PortsWith(st) ==
    SelectSeq(range_list(start_port, end_port), LAMBDA p : OutcomeOf(p) = st)

\* The report scan_ports returns (scan_time left out) as a function of its
\* arguments and of the per-port connect outcomes.
ReportOf ==
    IF ValidatePorts(start_port, end_port) # "ok"
    THEN RangeFailure(ValidatePorts(start_port, end_port))
    ELSE IF gethostbyname(host) # "ok" THEN ResolveFailure(host)
    ELSE IF Min(max_threads, end_port - start_port + 1) <= 0
    THEN [InitReport(host, start_port, end_port, timeout)
            EXCEPT !.error = "Port scanning failed"]
    ELSE [InitReport(host, start_port, end_port, timeout)
            EXCEPT !.open_ports = PortsWith("open"),
                   !.closed_ports = PortsWith("closed"),
                   !.filtered_ports = PortsWith("filtered"),
                   !.success = TRUE]

\* C18: the report scan_ports returns is a function of its arguments and of
\* the per-port connect outcomes: whatever the thread interleaving and the
\* order in which probes complete and are collected, and on every rerun with
\* the same arguments and outcomes, the same report is returned.
C18_Deterministic ==
    (pc = "done" /\ variant = "range") => result = ReportOf

\* C18 witness: a successful scan with an open port and two closed ports
\* that were collected in descending order by two or more workers.
C18_Witness ==
    /\ Succeeded /\ variant = "range" /\ max_threads >= 2
    /\ result.open_ports # <<>> /\ Len(result.closed_ports) = 2
    /\ \E i, j \in 1 .. Len(collected) :
         /\ i < j /\ collected[i] > collected[j]
         /\ {collected[i], collected[j]} = Range(result.closed_ports)

\* The invocation got past input validation (scan_common_ports has none).
Validated == variant = "common" \/ (variant = "range" /\ ~InvalidRange)

\* C19: a scan invocation resolves its host exactly once, before any task is
\* submitted and before any probe starts, and every connect of the invocation
\* goes to that one resolved address. (A call rejected for its port range
\* does not scan and resolves nothing: C5.)
C19_ResolvedOnce ==
    /\ resolve_calls <= 1
    /\ (Validated /\ pc \notin {"idle", "resolve"}) => resolve_calls = 1
    /\ (future_to_port # <<>> \/ \E p \in DOMAIN probe : probe[p] # "pending") =>
         resolve_calls = 1 /\ gethostbyname(host) = "ok"
    /\ \A p \in DOMAIN dest :
         /\ attempts[p] > 0 => dest[p] = result.target_ip /\ dest[p] = "ip"
         /\ attempts[p] = 0 => dest[p] = "none"

\* C19 witness: a successful three-port scan whose three probes all connected
\* to the address resolved by the single gethostbyname call.
C19_Witness ==
    /\ Succeeded /\ variant = "range" /\ resolve_calls = 1
    /\ Cardinality(Requested) = 3
    /\ \A p \in Requested : attempts[p] = 1 /\ dest[p] = result.target_ip

\* C15 (as claimed): a scan cancelled while in progress dispatches no new
\* probe, and still returns a report in which the ports collected before the
\* cancellation keep their place and every other requested port is in
\* filtered_ports, so the three lists cover the requested port set.
C15_CancelledReport ==
    (interrupt.raised /\ pc # "cancelling") =>
        /\ pc = "done"
        /\ Started = interrupt.started
        /\ Range(result.open_ports) \cup Range(result.closed_ports)
              \cup Range(result.filtered_ports) = Requested
        /\ Requested \ Range(interrupt.collected) \subseteq Range(result.filtered_ports)

\* C20: PerformanceProfiler is thread-safe. Only the thread holding the lock
\* is inside a locked block; whenever no record_call is inside its block,
\* each name's call_count, errors and total_time are exactly the number, the
\* failures and the summed time of the record_call invocations completed for
\* it since the last clear (none lost); and what get_metrics and get_summary
\* return is such a state, never a half-applied update.
C20_ThreadSafe ==
    /\ \A t \in Threads : tpc[t] \in Locked => lock = t
    /\ (\A t \in Threads : tpc[t] \notin {"r_insert", "r_load", "r_store", "r_time",
                                            "r_errors", "r_release"}) =>
         \A n \in Names :
           /\ metrics[n].call_count = completed[n]
           /\ metrics[n].errors = failed[n]
           /\ metrics[n].total_time = spent[n]
           /\ metrics[n].present <=> completed[n] > 0
    /\ \A t \in Threads :
         /\ tpc[t] = "g_release" =>
              /\ treg[t].found <=> completed[targ[t].name] > 0
              /\ treg[t].call_count = completed[targ[t].name]
              /\ treg[t].errors = failed[targ[t].name]
              /\ treg[t].total_time = spent[targ[t].name]
         /\ tpc[t] = "s_release" =>
              /\ treg[t].call_count = SumOver(Names, completed)
              /\ treg[t].errors = SumOver(Names, failed)
              /\ treg[t].total_time = SumOver(Names, spent)

\* C20 witness: a failed record_call for a name has completed, and a second
\* record_call for it is waiting for the lock that a get_metrics of that name
\* holds with its copy ready.
C20_Witness ==
    \E t, u \in Threads, n \in Names :
        /\ completed[n] = 1 /\ failed[n] = 1
        /\ tpc[t] = "g_release" /\ targ[t].name = n /\ treg[t].call_count = 1
        /\ tpc[u] = "r_acquire" /\ targ[u].name = n

\* One step of a probe's state: it stays, starts connecting, or ends in a
\* classification; a probe that raised before its connect (socket creation
\* or settimeout) starts and ends within one step of the model.
ProbeStep(a, b) ==
    \/ a = b
    \/ a = "pending" /\ b = "connecting"
    \/ a = "pending" /\ b = "filtered"
    \/ a = "connecting" /\ b \in Terminal

\* The report list a classification names.
ListOf(st) ==
    CASE st = "open" -> result.open_ports
      [] st = "closed" -> result.closed_ports
      [] OTHER -> result.filtered_ports

WorkerStep == WorkerStart \/ \E port \in DOMAIN probe : WorkerFinish(port)

\* C24: the result lists of scan_ports are written by the orchestrating
\* thread only: no step of a worker changes result, and while the caller
\* collects, the three lists hold exactly the ports collected so far, each
\* once (no entry lost, none duplicated), whatever the workers do meanwhile.
C24_SingleWriter ==
    /\ []((variant = "range" /\ pc = "collect") =>
            /\ Len(result.open_ports) + Len(result.closed_ports)
                  + Len(result.filtered_ports) = Len(collected)
            /\ Range(result.open_ports) \cup Range(result.closed_ports)
                  \cup Range(result.filtered_ports) = Range(collected)
            /\ NoDuplicates(collected))
    /\ [][WorkerStep => result' = result]_vars

\* C24 witness: the caller has appended two ports while two workers are
\* still running probes.
C24_Witness ==
    /\ variant = "range" /\ pc = "collect"
    /\ Len(collected) = 1 /\ Cardinality(InFlight) = 2

\* The three port lists of a report.
ListFields == {"open_ports", "closed_ports", "filtered_ports"}

\* C25: a result of scan_ports with success = False (invalid range,
\* resolution failure, pool not created) carries an error and no partly
\* filled report: each of the three port lists is absent or empty.
C25_BinaryFailure ==
    (pc = "done" /\ variant = "range" /\ ~result.success) =>
        /\ result.error # "None"
        /\ result.error # ""
        /\ \A f \in ListFields \cap DOMAIN result : result[f] = <<>>

\* C25 witness: a three-port scan called with max_threads = 0 returned the
\* pool's failure with its three lists present and empty.
C25_Witness ==
    /\ pc = "done" /\ variant = "range" /\ ~result.success
    /\ max_threads = 0 /\ end_port - start_port = 2
    /\ result.error = "Port scanning failed"
    /\ ListFields \subseteq DOMAIN result

\* The first k ports of the scan_common_ports table.
FirstPorts(k) == {ports_list[i] : i \in 1 .. k}

IsPrefix(s, t) == Len(s) <= Len(t) /\ \A i \in 1 .. Len(s) : s[i] = t[i]

\* C30: scan_ports submits one task per port in ascending port order and
\* collects nothing before all are submitted; it then collects finished
\* futures only, each once, and files each under the port it was submitted
\* for (the port lands in the list its own probe's status names).
C30_SubmitThenCollect ==
    variant = "range" =>
        /\ IsPrefix(future_to_port, ports_to_scan)
        /\ StrictlyAscending(future_to_port)
        /\ collected # <<>> => future_to_port = ports_to_scan
        /\ pc = "collect" => future_to_port = ports_to_scan
        /\ NoDuplicates(collected)
        /\ \A p \in Range(collected) :
             /\ p \in Range(future_to_port)
             /\ probe[p] \in Terminal
             /\ \A st \in Terminal : p \in Range(ListOf(st)) <=> st = probe[p]

\* C30 witness: all three tasks are submitted and the first two collected
\* are in descending port order (completion order, not submission order).
C30_Witness ==
    /\ variant = "range" /\ pc = "collect"
    /\ Len(future_to_port) = 3 /\ Len(collected) = 2
    /\ collected[1] > collected[2]

\* C21 (as claimed): validate_port_range(start, end) returns (start, end)
\* exactly when 1 <= start <= end <= 65535 and the range holds at most
\* 10000 ports; a well-formed range of more than 10000 ports raises
\* 'Port range too large (max 10000 ports)'.
C21_RangeLimit ==
    vr_pc = "done" =>
        LET s == vr_args[1]
            e == vr_args[2]
            WellFormed == ~s.text /\ ~e.text /\ 1 <= s.n /\ s.n <= e.n /\ e.n <= 65535
            size == e.n - s.n + 1 IN
          /\ vr_out.ok <=> (WellFormed /\ size <= 10000)
          /\ vr_out.ok => vr_out.value = <<s.n, e.n>>
          /\ (WellFormed /\ size > 10000) =>
               vr_out.error = "Port range too large (max 10000 ports)"

\* No thread is inside a wrapped call.
WrapperQuiet == \A t \in Threads : wrapper[t].pc \in {"idle", "w_exit"}

\* C22 (as claimed): every invocation of a wrapped function that ends while
\* monitoring is enabled records exactly one call (none while disabled);
\* it is recorded as failed when the function raised or returned a dict with
\* success = False; the caller sees the function's own result or exception.
C22_WrapperRecords ==
    /\ WrapperQuiet =>
         \A n \in Names :
           /\ metrics[n].call_count = winv.done[n]
           /\ metrics[n].errors = winv.failing[n]
    /\ \A t \in Threads :
         wrapper[t].pc = "w_exit" => wrapper[t].seen = wrapper[t].outcome

\* C27: dns_bulk_lookup of a list returns success = True with
\* successful_lookups + failed_lookups = total_hostnames = len(results) =
\* len(hostnames); results[i] is the lookup result of hostnames[i]; the two
\* counters count the successful and the failed results; a failing lookup
\* leaves the loop running (the call ends only by returning this summary).
C27_BulkTotals ==
    /\ bulk_pc \in {"idle", "loop", "done"}
    /\ (bulk_pc = "done" /\ bulk_hostnames.is_list) =>
         LET hs == bulk_hostnames.items
             rs == bulk_out.results IN
           /\ bulk_out.success
           /\ bulk_out.successful_lookups + bulk_out.failed_lookups = bulk_out.total_hostnames
           /\ bulk_out.total_hostnames = Len(hs)
           /\ Len(rs) = Len(hs)
           /\ \A i \in 1 .. Len(hs) : rs[i] = dns_lookup(hs[i]) /\ rs[i].hostname = hs[i]
           /\ bulk_out.successful_lookups = Cardinality({i \in 1 .. Len(rs) : rs[i].success})
           /\ bulk_out.failed_lookups = Cardinality({i \in 1 .. Len(rs) : ~rs[i].success})

\* C27 witness: a three-item list whose first lookup failed and whose last
\* succeeded has been answered with 1 successful and 2 failed lookups.
C27_Witness ==
    /\ bulk_pc = "done" /\ bulk_hostnames.is_list
    /\ Len(bulk_hostnames.items) = 3
    /\ ~bulk_out.results[1].success /\ bulk_out.results[3].success
    /\ bulk_out.successful_lookups = 1 /\ bulk_out.failed_lookups = 2

\* C28: in every result returned by ping_latency_test(host, count),
\* successful_pings + failed_pings = total_pings = count, also when every
\* ping failed.
C28_PingTotals ==
    lat_pc = "done" =>
        /\ lat_result.total_pings = lat_count
        /\ lat_result.successful_pings + lat_result.failed_pings = lat_result.total_pings

\* A valid IPv4 address in dotted-decimal notation: four decimal numbers
\* 0..255 written in digits.
IsIPv4(ip) ==
    /\ Len(ip.parts) = 4
    /\ \A i \in 1 .. Len(ip.parts) :
         ip.parts[i].plain /\ 0 <= ip.parts[i].n /\ ip.parts[i].n <= 255

\* The response of a service yields a valid IPv4 address.
YieldsIPv4(r) == r.kind = "body" /\ IsIPv4(r.ip)

\* C29: get_public_ip contacts its services in listed order, one at a time;
\* a successful result is that of the first service that yielded a valid
\* IPv4 address, and no service after it has been contacted; when every
\* service failed the result has success = False and service_errors holds
\* exactly one entry per service, in service order.
C29_FirstValidService ==
    /\ Len(ip_contacted) <= Len(services)
    /\ \A i \in 1 .. Len(ip_contacted) : ip_contacted[i] = services[i].name
    /\ (ip_pc = "done" /\ ip_out.success) =>
         LET k == Len(ip_contacted) IN
           /\ YieldsIPv4(ip_responses[k])
           /\ \A j \in 1 .. k - 1 : ~YieldsIPv4(ip_responses[j])
           /\ ip_out.service = services[k].name
           /\ ip_out.ip = ip_responses[k].ip.text
    /\ (ip_pc = "done" /\ ~ip_out.success) =>
           /\ \A j \in 1 .. Len(ip_responses) : ~YieldsIPv4(ip_responses[j])
           /\ Len(ip_out.service_errors) = Len(services)
           /\ \A i \in 1 .. Len(services) : ip_out.service_errors[i].service = services[i].name

====
